---- MODULE Spec2Model ----
(***************************************************************************)
(* beehive: behaviour trees (include/beehive/beehive.hpp).                 *)
(*                                                                         *)
(* A Node is a process function plus a vector of child Nodes.  The model   *)
(* writes a node as a record [kind, fn, children]: kind and fn describe    *)
(* the closure that make_leaf / make_branch stored in the node, children   *)
(* is the node's own vector.  A node is addressed by its path, the         *)
(* sequence of child positions (from 1) that leads to it from the root.    *)
(*                                                                         *)
(* The builder is modelled with every BuilderBase object it hands out      *)
(* (handles).  Spec makes the calls as one fluent chain, each on the       *)
(* handle the call before returned; SpecHandles lets the caller keep the   *)
(* handles and call them in any order.  assert() is modelled as compiled   *)
(* in: a failed assertion ends the program (halt = "assert").              *)
(***************************************************************************)
EXTENDS Integers, Sequences, FiniteSets, TLC

\* Bounds of the model.
MaxNodes == 4
MaxCalls == 2
MaxBuilders == 2
MaxSubNodes == 3
MaxSucceeders == 3
\* Calls of process() on one tree where fresh and used contexts alternate.
MaxRepeats == 3
\* Calls of process() that are followed step by step.
MaxStepCalls == 1

VARIABLES
    root,      \* Builder::_root, the tree under construction
    handles,   \* the BuilderBase objects: handles[1] is the Builder itself
    phase,     \* "building" | "built"
    halt,      \* "none" | "assert" (a failed assert) | "undefined" (dangling use)
    tree,      \* Tree::_root of the tree returned by build(), or NoTree
    sub,       \* an earlier tree the caller still holds (for tree()), or NoTree
    ctx,       \* the caller's Context: visit counters, one per leaf
    runs,      \* the process() calls made on tree so far, oldest first
    builders,  \* number of Builder objects constructed so far
    last,      \* the last call made: [op, h], h the handle it was made on
    cur,       \* the handle the last builder call returned
    ended,     \* the branch handles on which end() has returned
    subCtx,    \* the Context the caller passes when it evaluates sub
    subRuns,   \* the process() calls made on sub so far, oldest first
    threads    \* per cursor the caller made: [cursor, ctx, runs]

vars == <<root, handles, phase, halt, tree, sub, ctx, runs, builders, last, cur, ended, subCtx, subRuns, threads>>

----------------------------------------------------------------------------
\* enum class Status
FAILURE == "FAILURE"
RUNNING == "RUNNING"
SUCCESS == "SUCCESS"
Status == {FAILURE, RUNNING, SUCCESS}

\* What evaluation yields when an assert inside a process function fails.
ABORTED == "ABORTED"

NoTree == [kind |-> "none", fn |-> "none", children |-> <<>>]

\* Node(ProcessFunction): a node starts with no children.
Node(kind, fn) == [kind |-> kind, fn |-> fn, children |-> <<>>]

\* Caller-supplied leaf functions.  ret is the C++ return type; the function
\* returns first on the first visit of its leaf and later afterwards; when
\* counts is TRUE it increments its own visit counter in the context.
LeafFn(ret, first, later, counts) ==
    [ret |-> ret, first |-> first, later |-> later, counts |-> counts]

StatusLeaves ==
    { LeafFn("Status", RUNNING, SUCCESS, TRUE),
      LeafFn("Status", SUCCESS, FAILURE, TRUE) }
BoolLeaves ==
    { LeafFn("bool", "true", "true", TRUE),
      LeafFn("bool", "false", "false", TRUE) }
VoidLeaves ==
    { LeafFn("void", "void", "void", TRUE) }

\* Mutant of noop: a leaf that writes to the context.
noopCounts == LeafFn("Status", SUCCESS, SUCCESS, TRUE)

\* noop(C &): returns SUCCESS and does not touch the context.
noop == LeafFn("Status", SUCCESS, SUCCESS, FALSE)

----------------------------------------------------------------------------
\* Navigation in a node's children vectors.

RECURSIVE NodeAt(_, _)
NodeAt(n, p) ==
    IF p = <<>> THEN n ELSE NodeAt(n.children[Head(p)], Tail(p))

RECURSIVE AppendAt(_, _, _)
AppendAt(n, p, c) ==
    IF p = <<>>
    THEN [n EXCEPT !.children = Append(@, c)]
    ELSE [n EXCEPT !.children[Head(p)] = AppendAt(@, Tail(p), c)]

RECURSIVE NodeCount(_)
RECURSIVE CountAll(_, _)
CountAll(cs, i) ==
    IF i > Len(cs) THEN 0 ELSE NodeCount(cs[i]) + CountAll(cs, i + 1)
NodeCount(n) == 1 + CountAll(n.children, 1)

RECURSIVE PathsOf(_)
PathsOf(n) ==
    {<<>>} \cup UNION { { <<i>> \o q : q \in PathsOf(n.children[i]) }
                        : i \in 1..Len(n.children) }

LeafPaths(n) == { p \in PathsOf(n) : NodeAt(n, p).kind = "leaf" }

ZeroCtx(n) == [p \in LeafPaths(n) |-> 0]

----------------------------------------------------------------------------
\* Evaluation.  An evaluation state c is [visited, log]: visited is the
\* Context, log lists the nodes whose process function returned during the
\* call, in the order they returned, with the status each returned.

Entry(p, raw, st) == [path |-> p, raw |-> raw, status |-> st]

Result(st, c, raw) == [status |-> st, ctx |-> c, raw |-> raw]

\* A failed assert inside a process function: the call never returns.
Aborted(c) == Result(ABORTED, c, "-")

\* The caller's function f run on the context: its return value and the
\* context it leaves.
CallLeafFn(f, c, p) ==
    LET n == IF f.counts THEN c.visited[p] + 1 ELSE c.visited[p]
    IN  [raw |-> IF n > 1 THEN f.later ELSE f.first,
         ctx |-> [c EXCEPT !.visited[p] = n]]

RECURSIVE NodeProcess(_, _, _)

\* sequence(children, context); p is the path of the node that owns children.
RECURSIVE sequenceFrom(_, _, _, _)
sequenceFrom(children, i, c, p) ==
    IF i > Len(children) THEN Result(SUCCESS, c, "-")
    ELSE LET r == NodeProcess(children[i], c, Append(p, i))
         IN  IF r.status # SUCCESS THEN Result(r.status, r.ctx, "-")
             ELSE sequenceFrom(children, i + 1, r.ctx, p)

\* Mutant of sequence: stops on FAILURE only, so it runs on past RUNNING.
RECURSIVE sequencePastRunningFrom(_, _, _, _)
sequencePastRunningFrom(children, i, c, p) ==
    IF i > Len(children) THEN Result(SUCCESS, c, "-")
    ELSE LET r == NodeProcess(children[i], c, Append(p, i))
         IN  IF r.status \in {FAILURE, ABORTED} THEN Result(r.status, r.ctx, "-")
             ELSE sequencePastRunningFrom(children, i + 1, r.ctx, p)

sequencePastRunning(children, c, p) == sequencePastRunningFrom(children, 1, c, p)

sequence(children, c, p) == sequenceFrom(children, 1, c, p)

\* selector(children, context)
RECURSIVE selectorFrom(_, _, _, _)
selectorFrom(children, i, c, p) ==
    IF i > Len(children) THEN Result(FAILURE, c, "-")
    ELSE LET r == NodeProcess(children[i], c, Append(p, i))
         IN  IF r.status # FAILURE THEN Result(r.status, r.ctx, "-")
             ELSE selectorFrom(children, i + 1, r.ctx, p)

\* Mutant of selector: visits every child and returns the last result.
RECURSIVE selectorVisitsAllFrom(_, _, _, _, _)
selectorVisitsAllFrom(children, i, c, p, st) ==
    IF i > Len(children) THEN Result(st, c, "-")
    ELSE LET r == NodeProcess(children[i], c, Append(p, i))
         IN  IF r.status = ABORTED THEN Aborted(r.ctx)
             ELSE selectorVisitsAllFrom(children, i + 1, r.ctx, p, r.status)

selectorVisitsAll(children, c, p) == selectorVisitsAllFrom(children, 1, c, p, FAILURE)

selector(children, c, p) == selectorFrom(children, 1, c, p)

\* Mutant of forwarder: the child is processed a second time and the
\* second result returned.
forwarderRetries(child, c, cp) ==
    LET r == NodeProcess(child, c, cp)
        again == NodeProcess(child, r.ctx, cp)
    IN  IF r.status = ABORTED THEN Aborted(r.ctx)
        ELSE Result(again.status, again.ctx, "-")

\* forwarder(child, context); cp is the path of child.
forwarder(child, c, cp) ==
    LET r == NodeProcess(child, c, cp)
    IN  Result(r.status, r.ctx, "-")

\* Mutant of inverter: no test for RUNNING before the swap.
inverterSwapsRunning(child, c, cp) ==
    LET r == NodeProcess(child, c, cp)
    IN  IF r.status = ABORTED THEN Aborted(r.ctx)
        ELSE Result(IF r.status = FAILURE THEN SUCCESS ELSE FAILURE, r.ctx, "-")

\* inverter(child, context)
inverter(child, c, cp) ==
    LET r == NodeProcess(child, c, cp)
    IN  IF r.status = ABORTED THEN Aborted(r.ctx)
        ELSE IF r.status = RUNNING THEN Result(r.status, r.ctx, "-")
        ELSE Result(IF r.status = FAILURE THEN SUCCESS ELSE FAILURE, r.ctx, "-")

\* Mutant of succeeder: returns what the child returned.
succeederForwards(child, c, cp) ==
    LET r == NodeProcess(child, c, cp)
    IN  Result(r.status, r.ctx, "-")

\* succeeder(child, context)
succeeder(child, c, cp) ==
    LET r == NodeProcess(child, c, cp)
    IN  IF r.status = ABORTED THEN Aborted(r.ctx)
        ELSE Result(SUCCESS, r.ctx, "-")

\* Caller-supplied policies, passed to composite() and decorator().
\* customSequence is the lambda of CustomCompositeTest: it processes the
\* children it is given in order and returns the first result that is not
\* SUCCESS, or SUCCESS after the last child.
RECURSIVE customSequenceNext(_, _, _, _)
customSequenceNext(children, i, c, p) ==
    IF i > Len(children) THEN Result(SUCCESS, c, "-")
    ELSE LET child == NodeProcess(children[i], c, Append(p, i))
         IN  IF child.status # SUCCESS THEN Result(child.status, child.ctx, "-")
             ELSE customSequenceNext(children, i + 1, child.ctx, p)

customSequence(children, c, p) == customSequenceNext(children, 1, c, p)

\* customAll processes every child it is given, in order, and returns the
\* result of the last one (SUCCESS when it is given none).
RECURSIVE customAllNext(_, _, _, _, _)
customAllNext(children, i, c, p, st) ==
    IF i > Len(children) THEN Result(st, c, "-")
    ELSE LET child == NodeProcess(children[i], c, Append(p, i))
         IN  IF child.status = ABORTED THEN Aborted(child.ctx)
             ELSE customAllNext(children, i + 1, child.ctx, p, child.status)

customAll(children, c, p) == customAllNext(children, 1, c, p, SUCCESS)

\* customForward is the lambda of CustomDecoratorTest: it returns what
\* child.process returns.
customForward(child, c, cp) ==
    LET r == NodeProcess(child, c, cp)
    IN  Result(r.status, r.ctx, "-")

CustomComposites == {"customSequence", "customAll"}
CustomDecorators == {"customForward"}

Composites == {"sequence", "selector"}
Decorators == {"inverter", "succeeder"}

\* make_branch(Decorator f): the process function of a decorator node.
MakeBranchDecorator(f, self, c, p) ==
    IF Len(self.children) # 1 THEN Aborted(c)
    ELSE CASE f = "forwarder" -> forwarder(self.children[1], c, Append(p, 1))
           [] f = "inverter"  -> inverter(self.children[1], c, Append(p, 1))
           [] f = "succeeder" -> succeeder(self.children[1], c, Append(p, 1))
           [] f = "customForward" -> customForward(self.children[1], c, Append(p, 1))

\* Mutant of make_branch(Composite f): the policy is handed the children
\* without the last one.
MakeBranchCompositeDropsLast(f, self, c, p) ==
    LET given == SubSeq(self.children, 1, Len(self.children) - 1)
    IN  CASE f = "sequence" -> sequence(given, c, p)
          [] f = "selector" -> selector(given, c, p)
          [] f = "customSequence" -> customSequence(given, c, p)
          [] f = "customAll" -> customAll(given, c, p)

\* make_branch(Composite f): the process function of a composite node.
MakeBranchComposite(f, self, c, p) ==
    CASE f = "sequence" -> sequence(self.children, c, p)
      [] f = "selector" -> selector(self.children, c, p)
      [] f = "customSequence" -> customSequence(self.children, c, p)
      [] f = "customAll" -> customAll(self.children, c, p)

\* make_leaf(Leaf f)
MakeLeafStatus(f, self, c, p) ==
    IF self.children # <<>> THEN Aborted(c)
    ELSE LET r == CallLeafFn(f, c, p)
         IN  Result(r.raw, r.ctx, r.raw)

\* make_leaf(VoidLeaf f)
MakeLeafVoid(f, self, c, p) ==
    IF self.children # <<>> THEN Aborted(c)
    ELSE LET r == CallLeafFn(f, c, p)
         IN  Result(SUCCESS, r.ctx, r.raw)

\* Mutant of make_leaf(BoolLeaf): the two results swapped.
MakeLeafBoolSwapped(f, self, c, p) ==
    IF self.children # <<>> THEN Aborted(c)
    ELSE LET r == CallLeafFn(f, c, p)
         IN  Result(IF r.raw = "true" THEN FAILURE ELSE SUCCESS, r.ctx, r.raw)

\* Mutant of make_leaf(BoolLeaf): false is turned into RUNNING.
MakeLeafBoolRunning(f, self, c, p) ==
    IF self.children # <<>> THEN Aborted(c)
    ELSE LET r == CallLeafFn(f, c, p)
         IN  Result(IF r.raw = "true" THEN SUCCESS ELSE RUNNING, r.ctx, r.raw)

\* make_leaf(BoolLeaf f)
MakeLeafBool(f, self, c, p) ==
    IF self.children # <<>> THEN Aborted(c)
    ELSE LET r == CallLeafFn(f, c, p)
         IN  Result(IF r.raw = "true" THEN SUCCESS ELSE FAILURE, r.ctx, r.raw)

\* Mutant of Node::process: a leaf whose function returned FAILURE is run
\* once more and the second result returned.
NodeProcessRetries(n, c, p) ==
    LET run(cc) ==
            CASE n.kind = "decorator" -> MakeBranchDecorator(n.fn, n, cc, p)
              [] n.kind = "composite" -> MakeBranchComposite(n.fn, n, cc, p)
              [] n.kind = "leaf" /\ n.fn.ret = "Status" -> MakeLeafStatus(n.fn, n, cc, p)
              [] n.kind = "leaf" /\ n.fn.ret = "void" -> MakeLeafVoid(n.fn, n, cc, p)
              [] n.kind = "leaf" /\ n.fn.ret = "bool" -> MakeLeafBool(n.fn, n, cc, p)
        logged(r) == [r EXCEPT !.ctx.log = Append(@, Entry(p, r.raw, r.status))]
        once == run(c)
    IN  IF once.status = ABORTED THEN once
        ELSE IF n.kind = "leaf" /\ once.status = FAILURE
             THEN logged(run(logged(once).ctx))
             ELSE logged(once)

\* Node::process: runs the node's stored process function.  A call that
\* returns is appended to the log.
NodeProcess(n, c, p) ==
    LET r == CASE n.kind = "decorator" -> MakeBranchDecorator(n.fn, n, c, p)
               [] n.kind = "composite" -> MakeBranchComposite(n.fn, n, c, p)
               [] n.kind = "leaf" /\ n.fn.ret = "Status" -> MakeLeafStatus(n.fn, n, c, p)
               [] n.kind = "leaf" /\ n.fn.ret = "void" -> MakeLeafVoid(n.fn, n, c, p)
               [] n.kind = "leaf" /\ n.fn.ret = "bool" -> MakeLeafBool(n.fn, n, c, p)
    IN  IF r.status = ABORTED THEN r
        ELSE [r EXCEPT !.ctx.log = Append(@, Entry(p, r.raw, r.status))]

\* Mutant of Tree::process: after a call that returned RUNNING, the next
\* call goes straight to the leaf that was running.
TreeProcessResumes(t, visited) ==
    LET c0 == [visited |-> visited, log |-> <<>>]
        prev == runs[Len(runs)]
        leaves == { i \in 1..Len(prev.log) : NodeAt(t, prev.log[i].path).kind = "leaf" }
        q == prev.log[CHOOSE i \in leaves : \A j \in leaves : j <= i].path
    IN  IF runs # <<>> /\ prev.status = RUNNING /\ leaves # {}
        THEN NodeProcess(NodeAt(t, q), c0, q)
        ELSE NodeProcess(t, c0, <<>>)

\* Mutant of Tree::process: the tree keeps the result of its last call and
\* returns it without visiting any node.
TreeProcessCached(t, visited) ==
    IF runs # <<>>
    THEN Result(runs[Len(runs)].status, [visited |-> visited, log |-> <<>>], "-")
    ELSE NodeProcess(t, [visited |-> visited, log |-> <<>>], <<>>)

\* Tree::process(context)
TreeProcess(t, visited) ==
    NodeProcess(t, [visited |-> visited, log |-> <<>>], <<>>)

\* Tree::Tree(): the root is a noop leaf.
DefaultTreeRoot == Node("leaf", noop)

----------------------------------------------------------------------------
\* The builder.

EmptyCtx == [p \in {} |-> 0]

\* Builder::Builder(): the root is a forwarder decorator, and the Builder is
\* its own parent.
BuilderRoot == Node("decorator", "forwarder")
BuilderHandle == [node |-> <<>>, parent |-> 1, type |-> "DECORATOR"]

Init ==
    /\ root = BuilderRoot
    /\ handles = <<BuilderHandle>>
    /\ phase = "building"
    /\ halt = "none"
    /\ tree = NoTree
    /\ sub = NoTree
    /\ ctx = EmptyCtx
    /\ runs = <<>>
    /\ builders = 1
    /\ last = [op |-> "Builder", h |-> 1]
    /\ cur = 1
    /\ ended = {}
    /\ subCtx = EmptyCtx
    /\ subRuns = <<>>
    /\ threads = <<>>

\* BuilderBase::_node of handle h, and the children vector it points to.
NodeOf(h) == NodeAt(root, handles[h].node)
ChildrenOf(h) == NodeOf(h).children

\* _node points into the children vector of the parent node.  The pointer is
\* certainly valid only while no vector holding the node or one of its
\* ancestors has grown since: every node on the path is still the last child.
Live(h) ==
    LET p == handles[h].node
    IN  \A k \in 1..Len(p) :
            p[k] = Len(NodeAt(root, SubSeq(p, 1, k - 1)).children)

\* The model's node budget; while the caller holds a tree to attach, room
\* for it is kept.
Room(n) ==
    NodeCount(root) + n + (IF sub = NoTree THEN 0 ELSE NodeCount(sub))
        <= MaxNodes + 1

Building(h) ==
    /\ phase = "building"
    /\ halt = "none"
    /\ h \in 1..Len(handles)

\* Mutant of the decorator assert: the test left out.
DecoratorNeverFull(h) == TRUE

\* assert((_type != Type::DECORATOR) || _node->children.empty())
DecoratorHasRoom(h) ==
    handles[h].type # "DECORATOR" \/ ChildrenOf(h) = <<>>

\* A failed assert: the program ends, nothing else changes.
AssertFails(op, h) ==
    /\ halt' = "assert"
    /\ last' = [op |-> op, h |-> h]
    /\ UNCHANGED <<root, handles, phase, tree, sub, ctx, runs, builders, cur, ended,
                 subCtx, subRuns, threads>>

\* BuilderBase::_branch, reached through composite(), decorator() and the
\* shorthands sequence(), selector(), inverter(), succeeder().
Branch(op, h, n, type) ==
    /\ Building(h)
    /\ Live(h)
    /\ IF ~DecoratorHasRoom(h) THEN AssertFails(op, h)
       ELSE /\ Room(1)
            /\ root' = AppendAt(root, handles[h].node, n)
            /\ handles' = Append(handles,
                   [node |-> Append(handles[h].node, Len(ChildrenOf(h)) + 1),
                    parent |-> h, type |-> type])
            /\ last' = [op |-> op, h |-> h]
            /\ cur' = Len(handles) + 1
            /\ UNCHANGED <<phase, halt, tree, sub, ctx, runs, builders, ended,
                 subCtx, subRuns, threads>>

\* BuilderBase::composite
Composite(h, f) == Branch("composite", h, Node("composite", f), "COMPOSITE")

\* BuilderBase::decorator
Decorator(h, f) == Branch("decorator", h, Node("decorator", f), "DECORATOR")

\* Mutant of _leaf: the leaf is put in front of the children it finds.
RECURSIVE PrependAt(_, _, _)
PrependAt(n, p, c) ==
    IF p = <<>>
    THEN [n EXCEPT !.children = <<c>> \o @]
    ELSE [n EXCEPT !.children[Head(p)] = PrependAt(@, Tail(p), c)]

LeafInsertsFirst(h, f) ==
    /\ Building(h)
    /\ Live(h)
    /\ IF ~DecoratorHasRoom(h) THEN AssertFails("leaf", h)
       ELSE /\ Room(1)
            /\ root' = PrependAt(root, handles[h].node, Node("leaf", f))
            /\ last' = [op |-> "leaf", h |-> h]
            /\ cur' = h
            /\ UNCHANGED <<handles, phase, halt, tree, sub, ctx, runs, builders, ended,
                 subCtx, subRuns, threads>>

\* BuilderBase::_leaf, reached through leaf(Leaf), leaf(BoolLeaf) and
\* void_leaf(VoidLeaf).
Leaf(h, f) ==
    /\ Building(h)
    /\ Live(h)
    /\ IF ~DecoratorHasRoom(h) THEN AssertFails("leaf", h)
       ELSE /\ Room(1)
            /\ root' = AppendAt(root, handles[h].node, Node("leaf", f))
            /\ last' = [op |-> "leaf", h |-> h]
            /\ cur' = h
            /\ UNCHANGED <<handles, phase, halt, tree, sub, ctx, runs, builders, ended,
                 subCtx, subRuns, threads>>

\* Mutant of tree(): the child of the subtree's root is attached in place
\* of the subtree's root.
AttachTreeWithoutRoot(h) ==
    /\ Building(h)
    /\ Live(h)
    /\ sub # NoTree
    /\ IF ~DecoratorHasRoom(h) THEN AssertFails("tree", h)
       ELSE /\ Room(0)
            /\ root' = AppendAt(root, handles[h].node,
                                IF sub.children = <<>> THEN sub ELSE sub.children[1])
            /\ last' = [op |-> "tree", h |-> h]
            /\ cur' = h
            /\ UNCHANGED <<handles, phase, halt, tree, sub, ctx, runs, builders, ended,
                 subCtx, subRuns, threads>>

\* Mutant of tree(): the caller's tree is moved from, not copied.
AttachTreeMoves(h) ==
    /\ Building(h)
    /\ Live(h)
    /\ sub # NoTree
    /\ IF ~DecoratorHasRoom(h) THEN AssertFails("tree", h)
       ELSE /\ Room(0)
            /\ root' = AppendAt(root, handles[h].node, sub)
            /\ sub' = NoTree
            /\ last' = [op |-> "tree", h |-> h]
            /\ cur' = h
            /\ UNCHANGED <<handles, phase, halt, tree, ctx, runs, builders, ended,
                 subCtx, subRuns, threads>>

\* BuilderBase::tree
AttachTree(h) ==
    /\ Building(h)
    /\ Live(h)
    /\ sub # NoTree
    /\ IF ~DecoratorHasRoom(h) THEN AssertFails("tree", h)
       ELSE /\ Room(0)
            /\ root' = AppendAt(root, handles[h].node, sub)
            /\ last' = [op |-> "tree", h |-> h]
            /\ cur' = h
            /\ UNCHANGED <<handles, phase, halt, tree, sub, ctx, runs, builders, ended,
                 subCtx, subRuns, threads>>

\* Mutant of end: the Builder itself, which closes no branch, is refused.
EndRefusesBuilder(h) ==
    /\ Building(h)
    /\ Live(h)
    /\ IF ChildrenOf(h) = <<>> \/ h = 1 THEN AssertFails("end", h)
       ELSE /\ last' = [op |-> "end", h |-> h]
            /\ cur' = handles[h].parent
            /\ ended' = ended \cup ({h} \ {1})
            /\ UNCHANGED <<root, handles, phase, halt, tree, sub, ctx, runs, builders,
                 subCtx, subRuns, threads>>

\* Mutant of end: returns the handle it was called on.
EndReturnsSelf(h) ==
    /\ Building(h)
    /\ Live(h)
    /\ IF ChildrenOf(h) = <<>> THEN AssertFails("end", h)
       ELSE /\ last' = [op |-> "end", h |-> h]
            /\ cur' = h
            /\ ended' = ended \cup ({h} \ {1})
            /\ UNCHANGED <<root, handles, phase, halt, tree, sub, ctx, runs, builders,
                 subCtx, subRuns, threads>>

\* BuilderBase::end: returns the parent handle, handles[h].parent.
End(h) ==
    /\ Building(h)
    /\ Live(h)
    /\ IF ChildrenOf(h) = <<>> THEN AssertFails("end", h)
       ELSE /\ last' = [op |-> "end", h |-> h]
            /\ cur' = handles[h].parent
            /\ ended' = ended \cup ({h} \ {1})
            /\ UNCHANGED <<root, handles, phase, halt, tree, sub, ctx, runs, builders,
                 subCtx, subRuns, threads>>

\* Mutant of build() const &: what build() && does, the root is moved into
\* the tree and the Builder is left with a root without children.
BuildMoves(h) ==
    /\ Building(h)
    /\ IF h # 1 \/ root.children = <<>> THEN AssertFails("build", h)
       ELSE /\ tree' = root
            /\ root' = [root EXCEPT !.children = <<>>]
            /\ phase' = "built"
            /\ ctx' = ZeroCtx(root)
            /\ runs' = <<>>
            /\ last' = [op |-> "build", h |-> h]
            /\ UNCHANGED <<handles, halt, sub, builders, cur, ended,
                 subCtx, subRuns, threads>>

\* build() const &: Builder::build on the Builder itself (h = 1),
\* BuilderBase::build on every other handle.
Build(h) ==
    /\ Building(h)
    /\ IF h # 1 \/ root.children = <<>> THEN AssertFails("build", h)
       ELSE /\ tree' = root
            /\ phase' = "built"
            /\ ctx' = ZeroCtx(root)
            /\ runs' = <<>>
            /\ last' = [op |-> "build", h |-> h]
            /\ UNCHANGED <<root, handles, halt, sub, builders, cur, ended,
                 subCtx, subRuns, threads>>

\* After build() const & the Builder and its handles are as they were and
\* the caller, who keeps the tree, goes on calling them.
ContinueBuilding ==
    /\ phase = "built"
    /\ halt = "none"
    /\ last.op = "build"
    /\ phase' = "building"
    /\ last' = [op |-> "continue", h |-> 0]
    /\ UNCHANGED <<root, handles, halt, tree, sub, ctx, runs, builders, cur, ended,
                 subCtx, subRuns, threads>>

\* A call through a handle whose _node may dangle: undefined behaviour.
UseDangling(h) ==
    /\ Building(h)
    /\ ~Live(h)
    /\ halt' = "undefined"
    /\ last' = [op |-> "dangling", h |-> h]
    /\ UNCHANGED <<root, handles, phase, tree, sub, ctx, runs, builders, cur, ended,
                 subCtx, subRuns, threads>>

\* Tree<C> t; (the default constructor)
DefaultTree ==
    /\ phase = "building"
    /\ halt = "none"
    /\ last.op = "Builder"
    /\ tree' = DefaultTreeRoot
    /\ phase' = "built"
    /\ ctx' = ZeroCtx(DefaultTreeRoot)
    /\ runs' = <<>>
    /\ last' = [op |-> "Tree", h |-> 0]
    /\ UNCHANGED <<root, handles, halt, sub, builders, cur, ended,
                 subCtx, subRuns, threads>>

\* tree.process(context), on a fresh context or on the one the caller has;
\* the model stops after the given number of calls.
ProcessWithin(fresh, calls) ==
    /\ phase = "built"
    /\ halt = "none"
    /\ Len(runs) < calls
    /\ LET in == IF fresh THEN ZeroCtx(tree) ELSE ctx
           r == TreeProcess(tree, in)
       IN  /\ ctx' = r.ctx.visited
           /\ IF r.status = ABORTED
              THEN /\ halt' = "assert"
                   /\ runs' = runs
              ELSE /\ halt' = halt
                   /\ runs' = Append(runs, [input |-> in, status |-> r.status,
                                            visited |-> r.ctx.visited,
                                            log |-> r.ctx.log])
    /\ last' = [op |-> "process", h |-> 0]
    /\ UNCHANGED <<root, handles, phase, tree, sub, builders, cur, ended,
                 subCtx, subRuns, threads>>

\* tree.process(context) in the chains of calls.
Process(fresh) == ProcessWithin(fresh, MaxCalls)

\* The caller keeps the tree and starts a second Builder.
NewBuilder ==
    /\ phase = "built"
    /\ halt = "none"
    /\ builders < MaxBuilders
    /\ NodeCount(tree) <= MaxSubNodes
    /\ sub' = tree
    /\ tree' = NoTree
    /\ root' = BuilderRoot
    /\ handles' = <<BuilderHandle>>
    /\ phase' = "building"
    /\ ctx' = EmptyCtx
    /\ runs' = <<>>
    /\ builders' = builders + 1
    /\ last' = [op |-> "Builder", h |-> 1]
    /\ cur' = 1
    /\ ended' = {}
    /\ subCtx' = ZeroCtx(tree)
    /\ subRuns' = <<>>
    /\ threads' = <<>>
    /\ UNCHANGED halt

\* Mutant of the copy: the root node is copied without its children.
CopyTreeShallow ==
    /\ phase = "built"
    /\ halt = "none"
    /\ sub # tree
    /\ sub' = [tree EXCEPT !.children = <<>>]
    /\ subCtx' = ZeroCtx(sub')
    /\ subRuns' = <<>>
    /\ last' = [op |-> "copy", h |-> 0]
    /\ UNCHANGED <<root, handles, phase, halt, tree, ctx, runs, builders, cur, ended, threads>>

\* auto tree2 = tree;  Tree's implicit copy constructor copies _root, and
\* the copy of a Node copies its children vector and its process function.
CopyTree ==
    /\ phase = "built"
    /\ halt = "none"
    /\ sub # tree
    /\ sub' = tree
    /\ subCtx' = ZeroCtx(tree)
    /\ subRuns' = <<>>
    /\ last' = [op |-> "copy", h |-> 0]
    /\ UNCHANGED <<root, handles, phase, halt, tree, ctx, runs, builders, cur, ended, threads>>

\* tree2.process(context2): the second tree the caller holds evaluated on
\* a Context of its own, fresh or the one from its earlier calls.
ProcessSub(fresh) ==
    /\ sub # NoTree
    /\ halt = "none"
    /\ Len(subRuns) < MaxCalls
    /\ LET in == IF fresh THEN ZeroCtx(sub) ELSE subCtx
           r == TreeProcess(sub, in)
       IN  /\ subCtx' = r.ctx.visited
           /\ IF r.status = ABORTED
              THEN /\ halt' = "assert"
                   /\ subRuns' = subRuns
              ELSE /\ halt' = halt
                   /\ subRuns' = Append(subRuns, [input |-> in, status |-> r.status,
                                                  visited |-> r.ctx.visited,
                                                  log |-> r.ctx.log])
    /\ last' = [op |-> "processSub", h |-> 0]
    /\ UNCHANGED <<root, handles, phase, tree, sub, ctx, runs, builders, cur, ended, threads>>

\* Several callers evaluate the same tree, each on a Context of its own
\* (threads[k].ctx; the cursor field stays <<>>, process(context) has none).
Callers == {"caller1", "caller2"}

\* What caller k holds: a zeroed Context before its first call.
Caller(k) ==
    IF k \in DOMAIN threads THEN threads[k]
    ELSE [cursor |-> <<>>, ctx |-> ZeroCtx(tree), runs |-> <<>>]

\* tree.process(context) on the Context in th: what the caller holds
\* afterwards.
PlainCall(t, th) ==
    LET r == TreeProcess(t, th.ctx)
    IN  [cursor |-> <<>>,
         ctx |-> r.ctx.visited,
         runs |-> Append(th.runs, [input |-> th.ctx, status |-> r.status,
                                   visited |-> r.ctx.visited, log |-> r.ctx.log])]

\* Mutant: the engine keeps the Context of the last call with the tree and
\* evaluates on it, whoever calls.
ProcessCallerSharedState(k) ==
    /\ phase = "built"
    /\ halt = "none"
    /\ Len(Caller(k).runs) < MaxCalls
    /\ LET th == PlainCall(tree, [Caller(k) EXCEPT !.ctx = ctx])
       IN  /\ th.runs[Len(th.runs)].status # ABORTED
           /\ threads' = [j \in DOMAIN threads \cup {k} |->
                              IF j = k THEN th ELSE threads[j]]
           /\ ctx' = th.ctx
    /\ last' = [op |-> "process_caller", h |-> 0]
    /\ UNCHANGED <<root, handles, phase, halt, tree, sub, runs, builders, cur,
                   ended, subCtx, subRuns>>

\* tree.process(context_k) by caller k.
ProcessCaller(k) ==
    /\ phase = "built"
    /\ halt = "none"
    /\ Len(Caller(k).runs) < MaxCalls
    /\ LET th == PlainCall(tree, Caller(k))
       IN  /\ th.runs[Len(th.runs)].status # ABORTED
           /\ threads' = [j \in DOMAIN threads \cup {k} |->
                              IF j = k THEN th ELSE threads[j]]
    /\ last' = [op |-> "process_caller", h |-> 0]
    /\ UNCHANGED <<root, handles, phase, halt, tree, sub, ctx, runs, builders, cur,
                   ended, subCtx, subRuns>>

----------------------------------------------------------------------------
\* Resumable evaluation, process(cursor, context).  The header of this
\* version has no such overload; it is written here from the specification
\* of the evaluator.  A cursor is the path of the leaf that returned RUNNING
\* in the last call made with it, or <<>> when that call ended (or none has
\* been made): a composite on that path is entered again at its child on
\* the path, the children before it are not invoked again, and the
\* children after it are visited in order from the start.

RECURSIVE CursorProcess(_, _, _, _)

\* The loop of a composite from child i on; resume is what is left of the
\* cursor below child i, <<>> for a child entered from its start.
RECURSIVE CursorChildren(_, _, _, _, _, _)
CursorChildren(f, children, i, c, p, resume) ==
    LET pass == IF f = "sequence" THEN SUCCESS ELSE FAILURE
    IN  IF i > Len(children) THEN Result(pass, c, "-")
        ELSE LET r == CursorProcess(children[i], c, Append(p, i), resume)
             IN  IF r.status # pass THEN Result(r.status, r.ctx, "-")
                 ELSE CursorChildren(f, children, i + 1, r.ctx, p, <<>>)

CursorDecorator(f, child, c, cp, resume) ==
    LET r == CursorProcess(child, c, cp, resume)
    IN  IF r.status = ABORTED THEN Aborted(r.ctx)
        ELSE CASE f = "forwarder" -> Result(r.status, r.ctx, "-")
               [] f = "succeeder" -> Result(SUCCESS, r.ctx, "-")
               [] f = "inverter" ->
                      Result(CASE r.status = RUNNING -> RUNNING
                               [] r.status = FAILURE -> SUCCESS
                               [] r.status = SUCCESS -> FAILURE, r.ctx, "-")

CursorProcess(n, c, p, resume) ==
    IF n.kind = "leaf" THEN NodeProcess(n, c, p)
    ELSE LET r == IF n.kind = "decorator"
                  THEN IF Len(n.children) # 1 THEN Aborted(c)
                       ELSE CursorDecorator(n.fn, n.children[1], c, Append(p, 1),
                                            IF resume = <<>> THEN <<>> ELSE Tail(resume))
                  ELSE CursorChildren(n.fn, n.children,
                                      IF resume = <<>> THEN 1 ELSE Head(resume),
                                      c, p,
                                      IF resume = <<>> THEN <<>> ELSE Tail(resume))
         IN  IF r.status = ABORTED THEN r
             ELSE [r EXCEPT !.ctx.log = Append(@, Entry(p, r.raw, r.status))]

\* Mutant of the call: the cursor keeps the last leaf visited whatever the
\* call returned.
CursorCallKeepsPosition(t, th) ==
    LET r == CursorProcess(t, [visited |-> th.ctx, log |-> <<>>], <<>>, th.cursor)
        leaves == { i \in 1..Len(r.ctx.log) : NodeAt(t, r.ctx.log[i].path).kind = "leaf" }
    IN  [cursor |-> IF leaves # {}
                    THEN r.ctx.log[CHOOSE i \in leaves : \A j \in leaves : j <= i].path
                    ELSE <<>>,
         ctx |-> r.ctx.visited,
         runs |-> Append(th.runs, [input |-> th.ctx, status |-> r.status,
                                   visited |-> r.ctx.visited, log |-> r.ctx.log])]

\* One call process(cursor, context) on tree t by a caller whose cursor,
\* context and record are th: what the caller holds afterwards.
CursorCall(t, th) ==
    LET r == CursorProcess(t, [visited |-> th.ctx, log |-> <<>>], <<>>, th.cursor)
        leaves == { i \in 1..Len(r.ctx.log) : NodeAt(t, r.ctx.log[i].path).kind = "leaf" }
    IN  [cursor |-> IF r.status = RUNNING
                    THEN r.ctx.log[CHOOSE i \in leaves : \A j \in leaves : j <= i].path
                    ELSE <<>>,
         ctx |-> r.ctx.visited,
         runs |-> Append(th.runs, [input |-> th.ctx, status |-> r.status,
                                   visited |-> r.ctx.visited, log |-> r.ctx.log])]

\* make_cursor(tree): resume at the root, with a context of the caller's.
FreshThread(t) == [cursor |-> <<>>, ctx |-> ZeroCtx(t), runs |-> <<>>]

Cursors == {"cursor1", "cursor2"}

MakeCursor(k) ==
    /\ phase = "built"
    /\ halt = "none"
    /\ k \notin DOMAIN threads
    /\ threads' = [j \in DOMAIN threads \cup {k} |->
                       IF j = k THEN FreshThread(tree) ELSE threads[j]]
    /\ last' = [op |-> "make_cursor", h |-> 0]
    /\ UNCHANGED <<root, handles, phase, halt, tree, sub, ctx, runs, builders, cur,
                   ended, subCtx, subRuns>>

\* Mutant: the tree keeps the resume position itself, so that every caller
\* resumes where the last call on the tree stopped.
ProcessCursorInTree(k) ==
    /\ phase = "built"
    /\ halt = "none"
    /\ k \in DOMAIN threads
    /\ Len(threads[k].runs) < MaxCalls
    /\ LET th == CursorCall(tree, threads[k])
       IN  /\ th.runs[Len(th.runs)].status # ABORTED
           /\ threads' = [j \in DOMAIN threads |->
                              IF j = k THEN th
                              ELSE [threads[j] EXCEPT !.cursor = th.cursor]]
    /\ last' = [op |-> "process_cursor", h |-> 0]
    /\ UNCHANGED <<root, handles, phase, halt, tree, sub, ctx, runs, builders, cur,
                   ended, subCtx, subRuns>>

\* tree.process(cursor, context) by the caller that holds cursor k.
ProcessCursor(k) ==
    /\ phase = "built"
    /\ halt = "none"
    /\ k \in DOMAIN threads
    /\ Len(threads[k].runs) < MaxCalls
    /\ LET th == CursorCall(tree, threads[k])
       IN  /\ th.runs[Len(th.runs)].status # ABORTED
           /\ threads' = [threads EXCEPT ![k] = th]
    /\ last' = [op |-> "process_cursor", h |-> 0]
    /\ UNCHANGED <<root, handles, phase, halt, tree, sub, ctx, runs, builders, cur,
                   ended, subCtx, subRuns>>

\* The leaves of ResumePendingTest.
CursorLeaves ==
    { LeafFn("Status", SUCCESS, FAILURE, TRUE),
      LeafFn("Status", RUNNING, SUCCESS, TRUE),
      LeafFn("bool", "true", "true", TRUE) }

\* A tree built in one chain and evaluated through two cursors in any
\* interleaving.
CursorsNext ==
    \/ \E f \in Composites : Composite(cur, f)
    \/ \E f \in CursorLeaves : Leaf(cur, f)
    \/ End(cur)
    \/ Build(cur)
    \/ \E k \in Cursors : MakeCursor(k)
    \/ \E k \in Cursors : ProcessCursor(k)

SpecCursors == Init /\ [][CursorsNext]_vars

----------------------------------------------------------------------------
\* The node store, tree.nodes().  The header of this version keeps the
\* children of a node in a vector of its own; the store is written here
\* from the specification: the nodes of the tree in one sequence in
\* depth-first pre-order, each with its number of children and the size of
\* the subtree below it, and navigation by index arithmetic.  Indices
\* count from 0 as in the tests: node i is element i + 1 of the sequence.

RECURSIVE Store(_)
RECURSIVE StoreAll(_, _)
StoreAll(cs, i) ==
    IF i > Len(cs) THEN <<>> ELSE Store(cs[i]) \o StoreAll(cs, i + 1)

\* Mutant of the store: the size kept with a node counts its children only.
StoreCountsChildren(n) ==
    <<[kind |-> n.kind, fn |-> n.fn, children |-> Len(n.children),
       below |-> Len(n.children)]>> \o StoreAll(n.children, 1)

\* A node is appended, then its children's subtrees one after the other.
Store(n) ==
    LET rest == StoreAll(n.children, 1)
    IN  <<[kind |-> n.kind, fn |-> n.fn, children |-> Len(n.children),
           below |-> Len(rest)]>> \o rest

nodes(t) == Store(t)

NoNode == -1

child_count(s, i) == s[i + 1].children
descendent_count(s, i) == s[i + 1].below

\* The node whose subtree holds node i, the nearest one before i.
parent_of(s, i) ==
    LET above == { k \in 0..(i - 1) : i <= k + descendent_count(s, k) }
    IN  IF above = {} THEN NoNode ELSE CHOOSE k \in above : \A j \in above : j <= k

first_child(s, i) == IF child_count(s, i) > 0 THEN i + 1 ELSE NoNode

next_sibling(s, i) ==
    LET j == i + descendent_count(s, i) + 1
        up == parent_of(s, i)
    IN  IF up # NoNode /\ j <= up + descendent_count(s, up) THEN j ELSE NoNode

----------------------------------------------------------------------------
\* process() one call at a time.  While a thread is inside tree.process,
\* threads holds its record: the context it was given, the log of the
\* process functions that have returned, and the stack of the process
\* functions it has entered.  A frame is the node the function runs on, the
\* child its loop is at, and what the child it processed last returned.

NoStatus == "none"

StackFrame(p) == [path |-> p, next |-> 1, got |-> NoStatus]

\* What a process function does next: child.process(context) on child i,
\* return a status, call the caller's leaf function, or fail its assert.
Into(i) == [do |-> "call", child |-> i]
Back(st) == [do |-> "return", status |-> st]
CallLeaf == [do |-> "leaf"]
FailAssert == [do |-> "assert"]

\* sequence: for (auto &child : children), at child i, the child before it
\* having returned got.
sequenceLoop(children, i, got) ==
    IF got \notin {NoStatus, SUCCESS} THEN Back(got)
    ELSE IF i > Len(children) THEN Back(SUCCESS)
    ELSE Into(i)

\* selector: for (auto &child : children)
selectorLoop(children, i, got) ==
    IF got \notin {NoStatus, FAILURE} THEN Back(got)
    ELSE IF i > Len(children) THEN Back(FAILURE)
    ELSE Into(i)

\* forwarder: return child.process(context)
forwarderBody(got) ==
    IF got = NoStatus THEN Into(1) ELSE Back(got)

\* inverter
inverterBody(got) ==
    IF got = NoStatus THEN Into(1)
    ELSE IF got = RUNNING THEN Back(got)
    ELSE Back(IF got = FAILURE THEN SUCCESS ELSE FAILURE)

\* succeeder
succeederBody(got) ==
    IF got = NoStatus THEN Into(1) ELSE Back(SUCCESS)

\* The process function of node n, in frame fr (make_branch, make_leaf).
BodyOf(n, fr) ==
    CASE n.kind = "composite" /\ n.fn = "sequence" ->
             sequenceLoop(n.children, fr.next, fr.got)
      [] n.kind = "composite" /\ n.fn = "selector" ->
             selectorLoop(n.children, fr.next, fr.got)
      [] n.kind = "decorator" ->
             IF Len(n.children) # 1 THEN FailAssert
             ELSE (CASE n.fn = "forwarder" -> forwarderBody(fr.got)
                     [] n.fn = "inverter" -> inverterBody(fr.got)
                     [] n.fn = "succeeder" -> succeederBody(fr.got))
      [] n.kind = "leaf" ->
             IF n.children # <<>> THEN FailAssert ELSE CallLeaf

\* The status a leaf node returns for what the caller's function returned.
LeafStatus(f, raw) ==
    CASE f.ret = "Status" -> raw
      [] f.ret = "void" -> SUCCESS
      [] f.ret = "bool" -> IF raw = "true" THEN SUCCESS ELSE FAILURE

Top(th) == th.stack[Len(th.stack)]

\* tree.process(context) is called: Tree::process enters _root.process.
BeginProcess(fresh) ==
    /\ phase = "built"
    /\ halt = "none"
    /\ threads = <<>>
    /\ Len(runs) < MaxStepCalls
    /\ LET in == IF fresh THEN ZeroCtx(tree) ELSE ctx
       IN  /\ ctx' = in
           /\ threads' = <<[input |-> in, log |-> <<>>, stack |-> <<StackFrame(<<>>)>>]>>
    /\ last' = [op |-> "process", h |-> 0]
    /\ UNCHANGED <<root, handles, phase, halt, tree, sub, runs, builders, cur,
                 ended, subCtx, subRuns>>

\* The process function at the top of the stack calls child.process.
EnterChild ==
    /\ threads # <<>>
    /\ LET th == threads[1]
           fr == Top(th)
           d == BodyOf(NodeAt(tree, fr.path), fr)
       IN  /\ d.do = "call"
           /\ threads' = <<[th EXCEPT
                  !.stack = Append([@ EXCEPT ![Len(@)].next = d.child + 1],
                                   StackFrame(Append(fr.path, d.child)))]>>
    /\ UNCHANGED <<root, handles, phase, halt, tree, sub, ctx, runs, builders,
                 last, cur, ended, subCtx, subRuns>>

\* The process function at the top of the stack returns to its caller (a
\* leaf after calling the caller's function), or fails its assert.  The
\* return of _root.process is the return of Tree::process.
LeaveNode ==
    /\ threads # <<>>
    /\ LET th == threads[1]
           fr == Top(th)
           n == NodeAt(tree, fr.path)
           d == BodyOf(n, fr)
           called == CallLeafFn(n.fn, [visited |-> ctx, log |-> <<>>], fr.path)
           raw == IF d.do = "leaf" THEN called.raw ELSE "-"
           st == IF d.do = "leaf" THEN LeafStatus(n.fn, raw) ELSE d.status
           after == IF d.do = "leaf" THEN called.ctx.visited ELSE ctx
           log == Append(th.log, Entry(fr.path, raw, st))
           rest == SubSeq(th.stack, 1, Len(th.stack) - 1)
       IN  /\ d.do \in {"return", "leaf", "assert"}
           /\ IF d.do = "assert"
              THEN /\ halt' = "assert"
                   /\ threads' = <<>>
                   /\ UNCHANGED <<ctx, runs>>
              ELSE /\ halt' = halt
                   /\ ctx' = after
                   /\ IF rest = <<>>
                      THEN /\ threads' = <<>>
                           /\ runs' = Append(runs, [input |-> th.input, status |-> st,
                                                    visited |-> after, log |-> log])
                      ELSE /\ threads' = <<[th EXCEPT !.log = log,
                                  !.stack = [rest EXCEPT ![Len(rest)].got = st]]>>
                           /\ runs' = runs
    /\ UNCHANGED <<root, handles, phase, tree, sub, builders, last, cur, ended,
                 subCtx, subRuns>>

\* One expression of chained calls, as in the tests: every call is made on
\* the handle the call before it returned.
ChainNext ==
    \/ \E f \in Composites : Composite(cur, f)
    \/ \E f \in Decorators : Decorator(cur, f)
    \/ \E f \in StatusLeaves \cup BoolLeaves \cup VoidLeaves : Leaf(cur, f)
    \/ End(cur)
    \/ Build(cur)
    \/ DefaultTree
    \/ \E fresh \in BOOLEAN : Process(fresh)

Spec == Init /\ [][ChainNext]_vars

\* The caller keeps every handle and calls them in any order.  The builder
\* treats every composite alike, every decorator alike and every leaf alike,
\* so one composite, one decorator and two leaves are drawn.
Handles == 1..(MaxNodes + 1)
HandleLeaves ==
    { LeafFn("Status", RUNNING, SUCCESS, TRUE), LeafFn("bool", "true", "true", TRUE) }

HandlesNext ==
    \/ \E h \in Handles : Composite(h, "sequence")
    \/ \E h \in Handles : Decorator(h, "inverter")
    \/ \E h \in Handles, f \in HandleLeaves : Leaf(h, f)
    \/ \E h \in Handles : AttachTree(h)
    \/ \E h \in Handles : End(h)
    \/ \E h \in Handles : Build(h)
    \/ \E h \in Handles : UseDangling(h)
    \/ DefaultTree
    \/ \E fresh \in BOOLEAN : Process(fresh)
    \/ NewBuilder

SpecHandles == Init /\ [][HandlesNext]_vars

\* The caller builds a tree in one chain, copies it or hands it to a second
\* Builder, and evaluates both trees in any order.
TreesNext ==
    \/ Composite(cur, "sequence")
    \/ \E f \in HandleLeaves : Leaf(cur, f)
    \/ AttachTree(cur)
    \/ End(cur)
    \/ Build(cur)
    \/ \E fresh \in BOOLEAN : Process(fresh)
    \/ NewBuilder
    \/ CopyTree
    \/ \E fresh \in BOOLEAN : ProcessSub(fresh)

SpecTrees == Init /\ [][TreesNext]_vars

\* One tree built in one chain and evaluated repeatedly, on fresh contexts
\* and on the context the last call left.
RepeatNext ==
    \/ \E f \in Composites : Composite(cur, f)
    \/ \E f \in CursorLeaves : Leaf(cur, f)
    \/ End(cur)
    \/ Build(cur)
    \/ \E fresh \in BOOLEAN : ProcessWithin(fresh, MaxRepeats)

SpecRepeat == Init /\ [][RepeatNext]_vars

\* A leaf that returns RUNNING on every visit (SequenceTest), next to the
\* leaves of ResumePendingTest that answer differently on a later visit.
AlwaysRunning == LeafFn("Status", RUNNING, RUNNING, TRUE)

RunningLeaves ==
    { AlwaysRunning,
      LeafFn("Status", SUCCESS, FAILURE, TRUE),
      LeafFn("bool", "true", "true", TRUE) }

\* One tree with such leaves built in one chain; the caller keeps calling
\* process() on it.
RunningNext ==
    \/ \E f \in Composites : Composite(cur, f)
    \/ \E f \in RunningLeaves : Leaf(cur, f)
    \/ End(cur)
    \/ Build(cur)
    \/ \E fresh \in BOOLEAN : ProcessWithin(fresh, MaxRepeats)

SpecRunning == Init /\ [][RunningNext]_vars

\* Trees with caller-supplied policies on their branches, built in one
\* chain and evaluated.
CustomNext ==
    \/ \E f \in CustomComposites : Composite(cur, f)
    \/ \E f \in CustomDecorators : Decorator(cur, f)
    \/ \E f \in CursorLeaves : Leaf(cur, f)
    \/ End(cur)
    \/ Build(cur)
    \/ \E fresh \in BOOLEAN : Process(fresh)

SpecCustom == Init /\ [][CustomNext]_vars

\* One tree built in one chain and evaluated by two callers in any
\* interleaving, each on its own Context.
CallersNext ==
    \/ \E f \in Composites : Composite(cur, f)
    \/ \E f \in CursorLeaves : Leaf(cur, f)
    \/ End(cur)
    \/ Build(cur)
    \/ \E k \in Callers : ProcessCaller(k)

SpecCallers == Init /\ [][CallersNext]_vars

\* The caller keeps the Builder, its handles and the tree after build()
\* and goes on: more calls on the handles, then build() again.
RebuildNext ==
    \/ \E h \in Handles : Composite(h, "sequence")
    \/ \E h \in Handles, f \in HandleLeaves : Leaf(h, f)
    \/ \E h \in Handles : End(h)
    \/ \E h \in Handles : Build(h)
    \/ \E h \in Handles : UseDangling(h)
    \/ ContinueBuilding

SpecRebuild == Init /\ [][RebuildNext]_vars

\* One leaf function of each return type: between them they return
\* RUNNING, SUCCESS and FAILURE.
StepLeaves ==
    { LeafFn("Status", RUNNING, SUCCESS, TRUE),
      LeafFn("bool", "false", "false", TRUE),
      LeafFn("void", "void", "void", TRUE) }

\* The caller keeps the Builder and every handle and calls them in any
\* order; a thread calls process() on the tree that build() returned and
\* runs it to its end before it calls again.  A thread inside process()
\* keeps running.
StepsNext ==
    \/ \E h \in Handles, f \in Composites : Composite(h, f)
    \/ \E h \in Handles, f \in Decorators : Decorator(h, f)
    \/ \E h \in Handles, f \in StepLeaves : Leaf(h, f)
    \/ \E h \in Handles : End(h)
    \/ \E h \in Handles : Build(h)
    \/ \E fresh \in BOOLEAN : BeginProcess(fresh)
    \/ EnterChild
    \/ LeaveNode

SpecSteps == Init /\ [][StepsNext]_vars /\ WF_vars(EnterChild \/ LeaveNode)

\* The trees of the shape built in SucceederTest: a composite of up to
\* MaxSucceeders succeeders, each over one leaf, as build() returns them
\* after the chain  Builder{}.f().succeeder().leaf(l1).end() ... .end().
SucceederRows ==
    UNION { [1..k -> StatusLeaves \cup BoolLeaves \cup VoidLeaves]
              : k \in 1..MaxSucceeders }

SucceederTree(f, row) ==
    [BuilderRoot EXCEPT !.children = <<
        [Node("composite", f) EXCEPT !.children =
            [i \in 1..Len(row) |->
                [Node("decorator", "succeeder") EXCEPT !.children =
                    <<Node("leaf", row[i])>>]]] >>]

SucceederInit ==
    \E f \in Composites, row \in SucceederRows :
        /\ root = SucceederTree(f, row)
        /\ handles = <<BuilderHandle,
                       [node |-> <<1>>, parent |-> 1, type |-> "COMPOSITE"]>>
                     \o [i \in 1..Len(row) |->
                            [node |-> <<1, i>>, parent |-> 2, type |-> "DECORATOR"]]
        /\ phase = "built"
        /\ halt = "none"
        /\ tree = root
        /\ sub = NoTree
        /\ ctx = ZeroCtx(root)
        /\ runs = <<>>
        /\ builders = 1
        /\ last = [op |-> "build", h |-> 1]
        /\ cur = 1
        /\ ended = 2..(Len(row) + 2)
        /\ subCtx = EmptyCtx
        /\ subRuns = <<>>
        /\ threads = <<>>

SucceederNext == \E fresh \in BOOLEAN : Process(fresh)

SpecSucceeder == SucceederInit /\ [][SucceederNext]_vars

----------------------------------------------------------------------------
\* Reading the record of a process() call r = [input, status, visited, log].

IsPrefix(s, t) == Len(s) <= Len(t) /\ SubSeq(t, 1, Len(s)) = s

\* The positions of the log at which node p returned.
Returns(r, p) == { i \in 1..Len(r.log) : r.log[i].path = p }
Invoked(r, p) == Returns(r, p) # {}
ReturnOf(r, p) == CHOOSE i \in 1..Len(r.log) : r.log[i].path = p
StatusOf(r, p) == r.log[ReturnOf(r, p)].status

\* The children of the node at p that the call invoked.
InvokedChildren(r, p) ==
    { i \in 1..Len(NodeAt(tree, p).children) : Invoked(r, Append(p, i)) }

\* The positions of the log that are leaves.
LeafReturns(r) ==
    { i \in 1..Len(r.log) : NodeAt(tree, r.log[i].path).kind = "leaf" }

IsNode(p, kind, f) ==
    LET n == NodeAt(tree, p) IN n.kind = kind /\ n.fn = f

\* The children of the node at p were invoked in order, each once, up to
\* child k, and every child before k returned st.
VisitedInOrder(r, p, k, st) ==
    /\ InvokedChildren(r, p) = 1..k
    /\ \A i \in 1..k : Cardinality(Returns(r, Append(p, i))) = 1
    /\ \A i \in 1..k, j \in 1..k :
           i < j => ReturnOf(r, Append(p, i)) < ReturnOf(r, Append(p, j))
    /\ \A i \in 1..(k - 1) : StatusOf(r, Append(p, i)) = st

\* C1: a sequence with n >= 1 children invokes them in insertion order,
\* stops at the first child that does not return SUCCESS and returns that
\* child's result, and returns SUCCESS only when all n children were invoked
\* and returned SUCCESS.
C1_SequenceOne(r, p) ==
    LET n == Len(NodeAt(tree, p).children)
        k == Cardinality(InvokedChildren(r, p))
    IN  /\ k >= 1
        /\ VisitedInOrder(r, p, k, SUCCESS)
        /\ StatusOf(r, p) = StatusOf(r, Append(p, k))
        /\ StatusOf(r, Append(p, k)) = SUCCESS => k = n
        /\ StatusOf(r, p) \in Status

C1_Sequence ==
    \A c \in 1..Len(runs) : \A e \in 1..Len(runs[c].log) :
        LET p == runs[c].log[e].path
        IN  (IsNode(p, "composite", "sequence") /\ NodeAt(tree, p).children # <<>>)
                => C1_SequenceOne(runs[c], p)

\* A sequence of three children returned FAILURE after its second child.
C1_Witness ==
    \E c \in 1..Len(runs) : \E e \in 1..Len(runs[c].log) :
        LET p == runs[c].log[e].path
        IN  /\ IsNode(p, "composite", "sequence")
            /\ Len(NodeAt(tree, p).children) = 3
            /\ InvokedChildren(runs[c], p) = {1, 2}
            /\ runs[c].log[e].status = FAILURE

\* C2: a selector with n >= 1 children invokes them in insertion order,
\* stops at the first child that does not return FAILURE and returns that
\* child's result, and returns FAILURE only when all n children were invoked
\* and returned FAILURE.
C2_SelectorOne(r, p) ==
    LET n == Len(NodeAt(tree, p).children)
        k == Cardinality(InvokedChildren(r, p))
    IN  /\ k >= 1
        /\ VisitedInOrder(r, p, k, FAILURE)
        /\ StatusOf(r, p) = StatusOf(r, Append(p, k))
        /\ StatusOf(r, Append(p, k)) = FAILURE => k = n
        /\ StatusOf(r, p) \in Status

C2_Selector ==
    \A c \in 1..Len(runs) : \A e \in 1..Len(runs[c].log) :
        LET p == runs[c].log[e].path
        IN  (IsNode(p, "composite", "selector") /\ NodeAt(tree, p).children # <<>>)
                => C2_SelectorOne(runs[c], p)

\* A selector of three children returned SUCCESS after its second child.
C2_Witness ==
    \E c \in 1..Len(runs) : \E e \in 1..Len(runs[c].log) :
        LET p == runs[c].log[e].path
        IN  /\ IsNode(p, "composite", "selector")
            /\ Len(NodeAt(tree, p).children) = 3
            /\ InvokedChildren(runs[c], p) = {1, 2}
            /\ runs[c].log[e].status = SUCCESS

\* The first and the last leaf a call invoked.
FirstLeafReturn(r) == CHOOSE i \in LeafReturns(r) : \A j \in LeafReturns(r) : i <= j
LastLeafReturn(r) == CHOOSE i \in LeafReturns(r) : \A j \in LeafReturns(r) : j <= i

\* The first leaf of node n (at path p) in depth-first pre-order, as a
\* sequence of at most one path.
RECURSIVE FirstLeafIn(_, _)
RECURSIVE FirstLeafAmong(_, _, _)
FirstLeafAmong(cs, i, p) ==
    IF i > Len(cs) THEN <<>>
    ELSE LET f == FirstLeafIn(cs[i], Append(p, i))
         IN  IF f # <<>> THEN f ELSE FirstLeafAmong(cs, i + 1, p)
FirstLeafIn(n, p) ==
    IF n.kind = "leaf" THEN <<p>> ELSE FirstLeafAmong(n.children, 1, p)

\* The tree of ResumePendingTest (BeehiveTest.cpp): a sequence of a leaf
\* that succeeds once and then fails, a leaf that is RUNNING once and then
\* succeeds, and a leaf that counts its visits and returns true.
ResumeTestTree ==
    [BuilderRoot EXCEPT !.children = <<
        [Node("composite", "sequence") EXCEPT !.children = <<
            Node("leaf", LeafFn("Status", SUCCESS, FAILURE, TRUE)),
            Node("leaf", LeafFn("Status", RUNNING, SUCCESS, TRUE)),
            Node("leaf", LeafFn("bool", "true", "true", TRUE)) >>] >>]

Visits(a, b, c) ==
    [p \in {<<1, 1>>, <<1, 2>>, <<1, 3>>} |->
        IF p = <<1, 1>> THEN a ELSE IF p = <<1, 2>> THEN b ELSE c]

\* C3: after a call that returned RUNNING because child k returned RUNNING,
\* the next call with the same context re-enters at child k: the first leaf
\* it invokes is the one that was running, and nothing before it runs again.
\* On the tree of ResumePendingTest the first call returns RUNNING with
\* visit counts (1,1,0) and the second returns SUCCESS with (1,2,1).
C3_ResumesAtRunningChild ==
    /\ \A c \in 2..Len(runs) :
           (runs[c - 1].status = RUNNING /\ runs[c].input = runs[c - 1].visited)
               => /\ LeafReturns(runs[c]) # {}
                  /\ runs[c].log[FirstLeafReturn(runs[c])].path
                         = runs[c - 1].log[LastLeafReturn(runs[c - 1])].path
    /\ (tree = ResumeTestTree /\ Len(runs) = 2 /\ runs[1].input = Visits(0, 0, 0)
            /\ runs[2].input = runs[1].visited)
           => /\ runs[1].status = RUNNING
              /\ runs[1].visited = Visits(1, 1, 0)
              /\ runs[2].status = SUCCESS
              /\ runs[2].visited = Visits(1, 2, 1)

SucceederAbove(p) ==
    \E k \in 0..(Len(p) - 1) : IsNode(SubSeq(p, 1, k), "decorator", "succeeder")

\* The path of the nearest succeeder above p.
NearestSucceeder(p) ==
    LET ks == { k \in 0..(Len(p) - 1) : IsNode(SubSeq(p, 1, k), "decorator", "succeeder") }
    IN  SubSeq(p, 1, CHOOSE k \in ks : \A j \in ks : j <= k)

\* C5 as stated: within one call, once any node has yielded RUNNING no
\* further leaf is invoked, succeeders or not.
C5_StopsAtRunning ==
    \A c \in 1..Len(runs) : \A i \in 1..Len(runs[c].log) :
        runs[c].log[i].status = RUNNING
            => \A j \in LeafReturns(runs[c]) : j <= i

\* C5 amended: within one call, once a node has yielded RUNNING no further
\* leaf is invoked below the nearest succeeder above that node, and none in
\* the whole tree when no succeeder is above it.
C5_StopsAtRunningUpToSucceeder ==
    \A c \in 1..Len(runs) : \A i \in 1..Len(runs[c].log) :
        LET q == runs[c].log[i].path
        IN  runs[c].log[i].status = RUNNING
                => \A j \in LeafReturns(runs[c]) :
                       \/ j <= i
                       \/ /\ SucceederAbove(q)
                          /\ ~IsPrefix(NearestSucceeder(q), runs[c].log[j].path)

\* A leaf below a succeeder returned RUNNING, and the call left a leaf
\* below that succeeder uninvoked.
C5_Witness ==
    \E c \in 1..Len(runs) : \E i \in LeafReturns(runs[c]) :
        LET q == runs[c].log[i].path
        IN  /\ runs[c].log[i].status = RUNNING
            /\ SucceederAbove(q)
            /\ \E p \in LeafPaths(tree) :
                   /\ IsPrefix(NearestSucceeder(q), p)
                   /\ ~Invoked(runs[c], p)

\* C6: an inverter invokes its child exactly once and returns RUNNING for
\* RUNNING, SUCCESS for FAILURE and FAILURE for SUCCESS.
C6_Inverter ==
    \A c \in 1..Len(runs) : \A e \in 1..Len(runs[c].log) :
        LET p == runs[c].log[e].path
            r == runs[c]
        IN  IsNode(p, "decorator", "inverter")
                => /\ Cardinality(Returns(r, Append(p, 1))) = 1
                   /\ Cardinality(Returns(r, p)) = 1
                   /\ StatusOf(r, p) =
                          CASE StatusOf(r, Append(p, 1)) = RUNNING -> RUNNING
                            [] StatusOf(r, Append(p, 1)) = FAILURE -> SUCCESS
                            [] StatusOf(r, Append(p, 1)) = SUCCESS -> FAILURE

\* An inverter returned RUNNING in one call and FAILURE in the next.
C6_Witness ==
    /\ Len(runs) >= 2
    /\ \E p \in PathsOf(tree) :
           /\ IsNode(p, "decorator", "inverter")
           /\ Invoked(runs[1], p) /\ StatusOf(runs[1], p) = RUNNING
           /\ Invoked(runs[2], p) /\ StatusOf(runs[2], p) = FAILURE

\* The tree of SucceederTest: a sequence of three succeeders over leaves
\* that return true, RUNNING and false.
SucceederTestTree ==
    SucceederTree("sequence",
        << LeafFn("bool", "true", "true", TRUE),
           LeafFn("Status", RUNNING, SUCCESS, TRUE),
           LeafFn("bool", "false", "false", TRUE) >>)

\* C7: a succeeder returns SUCCESS whatever its child returned (SUCCESS,
\* FAILURE or RUNNING) and invokes its child exactly once per evaluation;
\* a sequence whose children are all succeeders invokes every one of them
\* and returns SUCCESS, the sequence of SucceederTest among them.
C7_Succeeder ==
    \A c \in 1..Len(runs) :
        LET r == runs[c]
        IN  /\ \A e \in 1..Len(r.log) :
                   LET p == r.log[e].path
                   IN  IsNode(p, "decorator", "succeeder")
                           => /\ r.log[e].status = SUCCESS
                              /\ Cardinality(Returns(r, p)) = 1
                              /\ Cardinality(Returns(r, Append(p, 1))) = 1
                              /\ StatusOf(r, Append(p, 1)) \in Status
            /\ \A p \in PathsOf(tree) :
                   (/\ IsNode(p, "composite", "sequence")
                    /\ Invoked(r, p)
                    /\ \A i \in 1..Len(NodeAt(tree, p).children) :
                           IsNode(Append(p, i), "decorator", "succeeder"))
                       => /\ StatusOf(r, p) = SUCCESS
                          /\ InvokedChildren(r, p) = 1..Len(NodeAt(tree, p).children)
            /\ tree = SucceederTestTree => r.status = SUCCESS

\* The tree of SucceederTest was processed: its three leaves returned
\* true, RUNNING and false, and the call returned SUCCESS.
C7_Witness ==
    /\ tree = SucceederTestTree
    /\ \E c \in 1..Len(runs) :
           /\ runs[c].status = SUCCESS
           /\ runs[c].log[ReturnOf(runs[c], <<1, 1, 1>>)].raw = "true"
           /\ runs[c].log[ReturnOf(runs[c], <<1, 2, 1>>)].raw = RUNNING
           /\ runs[c].log[ReturnOf(runs[c], <<1, 3, 1>>)].raw = "false"

\* C8: a bool leaf yields SUCCESS for true and FAILURE for false, never
\* RUNNING; a void leaf yields SUCCESS; a Status leaf yields what its
\* function returned; and the function of a leaf that was invoked ran
\* exactly once in the call.
C8_LeafAdaptation ==
    \A c \in 1..Len(runs) : \A i \in LeafReturns(runs[c]) :
        LET e == runs[c].log[i]
            f == NodeAt(tree, e.path).fn
        IN  /\ f.ret = "bool" => /\ e.raw \in {"true", "false"}
                                 /\ e.status = (IF e.raw = "true" THEN SUCCESS ELSE FAILURE)
            /\ f.ret = "void" => e.status = SUCCESS
            /\ f.ret = "Status" => e.raw \in Status /\ e.status = e.raw
            /\ Cardinality(Returns(runs[c], e.path)) = 1
            /\ f.counts => runs[c].visited[e.path] = runs[c].input[e.path] + 1

\* The calls made on one tree invoked a Status leaf that returned RUNNING,
\* a void leaf, and a bool leaf that returned false.
C8_Witness ==
    /\ \E c \in 1..Len(runs) : \E i \in LeafReturns(runs[c]) :
           /\ NodeAt(tree, runs[c].log[i].path).fn.ret = "Status"
           /\ runs[c].log[i].raw = RUNNING
    /\ \E c \in 1..Len(runs) : \E i \in LeafReturns(runs[c]) :
           NodeAt(tree, runs[c].log[i].path).fn.ret = "void"
    /\ \E c \in 1..Len(runs) : \E i \in LeafReturns(runs[c]) :
           /\ NodeAt(tree, runs[c].log[i].path).fn.ret = "bool"
           /\ runs[c].log[i].raw = "false"

\* C9: process on a default-constructed tree returns SUCCESS and leaves the
\* context as it was, on every call.
C9_EmptyTree ==
    (phase = "built" /\ tree = DefaultTreeRoot)
        => /\ halt = "none"
           /\ \A c \in 1..Len(runs) :
                  runs[c].status = SUCCESS /\ runs[c].visited = runs[c].input

\* The default-constructed tree was processed twice.
C9_Witness ==
    phase = "built" /\ tree = DefaultTreeRoot /\ Len(runs) >= 2

AddOps == {"composite", "decorator", "leaf", "tree"}

\* C10: a call that adds a child (composite, decorator, leaf, void_leaf,
\* tree) to a decorator frame that already has a child fails an assertion
\* and adds nothing; no decorator frame, the root included, ever has two
\* children.
C10_DecoratorOneChild ==
    /\ [](\A h \in 1..Len(handles) :
              handles[h].type = "DECORATOR" => Len(ChildrenOf(h)) <= 1)
    /\ [][\A h \in 1..Len(handles) :
              (/\ phase = "building"
               /\ last'.op \in AddOps /\ last'.h = h
               /\ handles[h].type = "DECORATOR"
               /\ ChildrenOf(h) # <<>>)
                  => (halt' = "assert" /\ root' = root)]_vars

\* The root, which has its child, was handed a tree as a second child and
\* the assertion failed.
C10_Witness ==
    /\ halt = "assert"
    /\ last.op = "tree" /\ last.h = 1
    /\ Len(root.children) = 1

\* C11: end() on a frame without children fails an assertion and changes
\* nothing; on a frame with a child it returns the parent handle and leaves
\* the tree alone, and the call of the chain that follows, when it adds a
\* node, appends it to the parent's children and not to the closed frame.
C11_End ==
    /\ [][\A h \in 1..Len(handles) :
              (phase = "building" /\ halt = "none" /\ last'.op = "end" /\ last'.h = h)
                  => IF ChildrenOf(h) = <<>>
                     THEN halt' = "assert" /\ root' = root /\ cur' = cur
                     ELSE halt' = "none" /\ root' = root
                              /\ cur' = handles[h].parent]_vars
    /\ [][(last.op = "end" /\ halt = "none" /\ last'.op \in AddOps /\ halt' = "none")
              => LET parent == handles[last.h].parent
                     q == handles[parent].node
                 IN  /\ last'.h = parent
                     /\ Len(NodeAt(root', q).children) = Len(NodeAt(root, q).children) + 1
                     /\ last.h # 1 =>
                            NodeAt(root', handles[last.h].node)
                                = NodeAt(root, handles[last.h].node)]_vars

\* A branch was closed with end() and the next call added a leaf after it
\* in the parent.
C11_Witness ==
    /\ halt = "none"
    /\ last.op = "leaf"
    /\ \E e \in ended :
           /\ handles[e].parent = last.h
           /\ handles[e].node[Len(handles[e].node)] + 1 = Len(ChildrenOf(last.h))
           /\ NodeOf(last.h).children[Len(ChildrenOf(last.h))].kind = "leaf"

\* The branch handles, those composite() and decorator() returned, that
\* have not been closed with end().
OpenBranches == (2..Len(handles)) \ ended

\* C12: build() fails an assertion whenever a branch opened during
\* construction is not yet closed or the root has no child, and returns a
\* tree in every other case, in whatever order the handles are called.
C12_BuildNeedsClosedBranches ==
    /\ (last.op = "build" /\ halt = "none")
           => (OpenBranches = {} /\ root.children # <<>>)
    /\ (last.op = "build" /\ halt = "assert")
           => (OpenBranches # {} \/ root.children = <<>>)

\* C14: in every tree build() returned every decorator node, the root
\* forwarder included, has exactly one child, and process() on the tree
\* never fails the assertion of a decorator.
C14_BuiltDecoratorsHaveOneChild ==
    /\ (phase = "built" /\ tree # DefaultTreeRoot)
           => \A p \in PathsOf(tree) :
                  NodeAt(tree, p).kind = "decorator"
                      => Len(NodeAt(tree, p).children) = 1
    /\ ~(last.op = "process" /\ halt = "assert")

\* C15: in every tree build() returned every composite node has at least
\* one child.
C15_BuiltCompositesHaveChildren ==
    (phase = "built" /\ tree # DefaultTreeRoot)
        => \A p \in PathsOf(tree) :
               NodeAt(tree, p).kind = "composite"
                   => Len(NodeAt(tree, p).children) >= 1

\* The path that follows the last child d times from the root: where the
\* d-th nested branch that is still open lies.
RECURSIVE SpinePath(_, _)
SpinePath(n, d) ==
    IF d = 0 \/ n.children = <<>> THEN <<>>
    ELSE <<Len(n.children)>> \o SpinePath(n.children[Len(n.children)], d - 1)

\* The innermost frame that the calls so far have opened and not closed.
FramePath == SpinePath(root, Cardinality(OpenBranches))
Frame == NodeAt(root, FramePath)

\* A call that breaks the nesting: an add in a decorator frame that has its
\* child, an end() in a frame without children, a build() with a branch
\* open or with nothing in the root.
IllNested(op) ==
    \/ op \in AddOps /\ Frame.kind = "decorator" /\ Frame.children # <<>>
    \/ op = "end" /\ Frame.children = <<>>
    \/ op = "build" /\ (OpenBranches # {} \/ root.children = <<>>)

BuilderOps == AddOps \cup {"end", "build"}

\* C13: in a chain of builder calls an assertion fails only at a call that
\* breaks the nesting; every add appends the new node, without children,
\* as the last child of the innermost open frame and changes nothing else;
\* end() and build() leave the nodes alone, end() closes the innermost open
\* branch, and build() returns the tree as the calls nested it.
C13_WellNested ==
    /\ [][(phase = "building" /\ halt = "none" /\ last'.op \in BuilderOps)
              => /\ halt' = "assert" => (IllNested(last'.op) /\ root' = root)
                 /\ (halt' = "none" /\ last'.op \in AddOps)
                        => LET q == Append(FramePath, Len(Frame.children) + 1)
                           IN  /\ q \in PathsOf(root')
                               /\ NodeAt(root', q).children = <<>>
                               /\ NodeAt(root', q).kind =
                                      (IF last'.op = "leaf" THEN "leaf" ELSE last'.op)
                               /\ root' = AppendAt(root, FramePath, NodeAt(root', q))
                               /\ OpenBranches' = OpenBranches \cup
                                      (IF last'.op = "leaf" THEN {} ELSE {Len(handles')})
                 /\ (halt' = "none" /\ last'.op = "end")
                        => /\ root' = root
                           /\ OpenBranches # {} =>
                                  OpenBranches' = OpenBranches \
                                      {CHOOSE h \in OpenBranches :
                                          \A k \in OpenBranches : k <= h}
                 /\ (halt' = "none" /\ last'.op = "build")
                        => /\ tree' = root
                           /\ phase' = "built"]_vars
    /\ [](\A h \in OpenBranches :
              /\ Len(handles[h].node) <= Cardinality(OpenBranches)
              /\ handles[h].node = SpinePath(root, Len(handles[h].node)))

\* build() returned a tree in which a composite holds a decorator with its
\* child and, after the decorator was closed, a second child.
C13_Witness ==
    /\ phase = "built" /\ halt = "none" /\ last.op = "build"
    /\ OpenBranches = {}
    /\ \E p \in PathsOf(tree) :
           /\ NodeAt(tree, p).kind = "composite"
           /\ Len(NodeAt(tree, p).children) = 2
           /\ NodeAt(tree, p).children[1].kind = "decorator"
           /\ Len(NodeAt(tree, p).children[1].children) = 1

\* The places of the built tree at which the tree the caller holds was
\* attached.
AttachedAt ==
    { q \in PathsOf(tree) : q # <<>> /\ sub # NoTree /\ NodeAt(tree, q) = sub }

\* What run r recorded below path q, with q taken off the paths.
RegionLog(r, q) ==
    LET sel == SelectSeq(r.log, LAMBDA e : IsPrefix(q, e.path))
    IN  [i \in 1..Len(sel) |->
            [sel[i] EXCEPT !.path = SubSeq(@, Len(q) + 1, Len(@))]]

\* The tree the caller holds evaluated alone, on the context that the
\* leaves of the region at q found in run r.
Standalone(r, q) ==
    TreeProcess(sub, [p \in LeafPaths(sub) |-> r.input[q \o p]])

\* C16: tree(A) adds exactly the nodes of A, A's root included, as one
\* child with A's structure; and whenever a process() call evaluates the
\* attached region, the region returns what A returns when evaluated alone
\* on the same context, after the same invocations in the same order.
C16_Attach ==
    /\ [][(phase = "building" /\ last'.op = "tree" /\ halt' = "none")
              => LET q == Append(handles[last'.h].node,
                                 Len(ChildrenOf(last'.h)) + 1)
                 IN  /\ NodeCount(root') = NodeCount(root) + NodeCount(sub)
                     /\ q \in PathsOf(root')
                     /\ NodeAt(root', q) = sub
                     /\ root' = AppendAt(root, handles[last'.h].node, sub)]_vars
    /\ [](\A q \in AttachedAt : \A c \in 1..Len(runs) :
              Invoked(runs[c], q)
                  => LET alone == Standalone(runs[c], q)
                     IN  /\ alone.status = StatusOf(runs[c], q)
                         /\ alone.ctx.log = RegionLog(runs[c], q)
                         /\ \A p \in LeafPaths(sub) :
                                alone.ctx.visited[p] = runs[c].visited[q \o p])

\* A tree with a leaf was attached below a sequence, after another leaf,
\* and two process() calls evaluated the region with different results.
C16_Witness ==
    /\ Len(runs) = 2
    /\ \E q \in AttachedAt :
           /\ Len(q) = 2 /\ q[2] = 2
           /\ NodeCount(sub) = 2
           /\ Invoked(runs[1], q) /\ StatusOf(runs[1], q) = RUNNING
           /\ Invoked(runs[2], q) /\ StatusOf(runs[2], q) = SUCCESS

\* C17: tree(A) copies A: the attach and every later call on the builder
\* or on the tree it builds leave the tree A that the caller holds as it
\* was, and evaluating A changes neither the builder nor the built tree nor
\* what the calls on the built tree recorded.
C17_AttachCopies ==
    /\ [][(sub # NoTree /\ last'.op \notin {"Builder", "copy"})
              => sub' = sub]_vars
    /\ [][last'.op = "processSub"
              => /\ root' = root /\ handles' = handles
                 /\ tree' = tree /\ ctx' = ctx /\ runs' = runs]_vars

\* A was attached; the tree built with it and A itself have both been
\* evaluated, and the attached region still equals A.
C17_Witness ==
    /\ phase = "built" /\ halt = "none"
    /\ AttachedAt # {}
    /\ runs # <<>>
    /\ subRuns # <<>>

\* C19: a copy of a tree is an equal tree of its own without progress: the
\* copy step leaves the original, its context and its record alone; the
\* first leaf every call on the copy invokes is the first leaf of the tree,
\* also after the original returned RUNNING at a later leaf; the copy
\* returns what the original returns on an equal context; and a call on
\* the copy leaves the original, its context and its record alone, so the
\* later calls on the original find what they would have found without it.
C19_CopyIsIndependent ==
    /\ [][last'.op = "copy"
              => /\ sub' = tree /\ tree' = tree
                 /\ ctx' = ctx /\ runs' = runs
                 /\ subRuns' = <<>>]_vars
    /\ [][(last'.op = "processSub" /\ sub = tree)
              => /\ tree' = tree /\ sub' = sub
                 /\ ctx' = ctx /\ runs' = runs]_vars
    /\ [](sub = tree =>
              /\ \A d \in 1..Len(subRuns) :
                     LeafReturns(subRuns[d]) # {}
                         => <<subRuns[d].log[FirstLeafReturn(subRuns[d])].path>>
                                = FirstLeafIn(tree, <<>>)
              /\ \A c \in 1..Len(runs), d \in 1..Len(subRuns) :
                     runs[c].input = subRuns[d].input
                         => /\ runs[c].status = subRuns[d].status
                            /\ runs[c].log = subRuns[d].log)

\* The original returned RUNNING at a leaf that is not its first, the copy
\* was evaluated, and the original was then called again on its context.
C19_Witness ==
    /\ phase = "built" /\ sub = tree
    /\ Len(runs) = 2 /\ subRuns # <<>>
    /\ runs[1].status = RUNNING
    /\ runs[2].input = runs[1].visited
    /\ runs[2].status = SUCCESS
    /\ <<runs[1].log[LastLeafReturn(runs[1])].path>> # FirstLeafIn(tree, <<>>)
    /\ subRuns[1].status = RUNNING

\* The leaves a call invoked, in the order they returned, with what each
\* function returned.
LeafVisits(r) ==
    SelectSeq(r.log, LAMBDA e : NodeAt(tree, e.path).kind = "leaf")

RECURSIVE ZeroOver(_)
ZeroOver(paths) ==
    IF paths = {} THEN <<>>
    ELSE LET p == CHOOSE q \in paths : TRUE
         IN  (p :> 0) @@ ZeroOver(paths \ {p})

Solo(t, calls) ==
    LET after[i \in 0..calls] ==
            IF i = 0 THEN [cursor |-> <<>>, ctx |-> ZeroOver(LeafPaths(t)), runs |-> <<>>]
            ELSE CursorCall(t, after[i - 1])
    IN  after[calls]

\* C18: two cursors over one tree progress independently: in every
\* interleaving of the calls made with them, the results, the leaf visits,
\* the context and the resume position of each cursor are those of the same
\* number of calls made with that cursor alone.
C18_IndependentCursors ==
    \A k \in DOMAIN threads :
        threads[k] = Solo(tree, Len(threads[k].runs))

\* On the tree of ResumePendingTest one cursor was used twice and has
\* finished with visit counts (1,2,1), the other was used once and waits
\* at the second leaf.
C18_Witness ==
    /\ tree = ResumeTestTree
    /\ DOMAIN threads = Cursors
    /\ Len(threads["cursor1"].runs) = 2
    /\ threads["cursor1"].runs[1].status = RUNNING
    /\ threads["cursor1"].runs[2].status = SUCCESS
    /\ threads["cursor1"].ctx = Visits(1, 2, 1)
    /\ threads["cursor1"].cursor = <<>>
    /\ Len(threads["cursor2"].runs) = 1
    /\ threads["cursor2"].cursor = <<1, 2>>
    /\ threads["cursor2"].ctx = Visits(1, 1, 0)

----------------------------------------------------------------------------
\* The number a node has when the nodes of the tree are counted from 0 in
\* depth-first pre-order: the nodes before it are its ancestors and the
\* nodes in the subtrees of the elder siblings of it and of its ancestors.
ComesBefore(q, p) ==
    \/ q # p /\ IsPrefix(q, p)
    \/ \E k \in 1..Len(q) :
           /\ k <= Len(p)
           /\ SubSeq(q, 1, k - 1) = SubSeq(p, 1, k - 1)
           /\ q[k] < p[k]

PreOrder(t, p) == Cardinality({ q \in PathsOf(t) : ComesBefore(q, p) })

\* C21: in the node store of a built tree, descendent_count(root) + 1 is
\* the number of nodes; node i of the pre-order numbering is at index i and
\* its subtree is exactly the indices i..i + descendent_count(i);
\* first_child(i) is i + 1, the first child's number, when i has
\* children; next_sibling(i) is i + descendent_count(i) + 1, the next
\* child of the same parent, when i is not the last child.
C21_NodeStore ==
    tree # NoTree =>
        LET s == nodes(tree)
        IN  /\ Len(s) = NodeCount(tree)
            /\ descendent_count(s, 0) + 1 = NodeCount(tree)
            /\ \A p \in PathsOf(tree) :
                   LET i == PreOrder(tree, p)
                       n == NodeAt(tree, p)
                   IN  /\ s[i + 1].kind = n.kind /\ s[i + 1].fn = n.fn
                       /\ child_count(s, i) = Len(n.children)
                       /\ { PreOrder(tree, q) : q \in { x \in PathsOf(tree) : IsPrefix(p, x) } }
                              = i..(i + descendent_count(s, i))
                       /\ IF n.children # <<>>
                          THEN /\ first_child(s, i) = i + 1
                               /\ first_child(s, i) = PreOrder(tree, Append(p, 1))
                          ELSE first_child(s, i) = NoNode
                       /\ p # <<>> =>
                              LET up == SubSeq(p, 1, Len(p) - 1)
                                  k == p[Len(p)]
                              IN  IF k < Len(NodeAt(tree, up).children)
                                  THEN /\ next_sibling(s, i) = i + descendent_count(s, i) + 1
                                       /\ next_sibling(s, i) = PreOrder(tree, Append(up, k + 1))
                                  ELSE next_sibling(s, i) = NoNode

\* A built tree in which a branch with a child of its own is followed by
\* a sibling, so that next_sibling skips the branch's subtree.
C21_Witness ==
    /\ phase = "built"
    /\ \E p \in PathsOf(tree) :
           /\ p # <<>>
           /\ NodeAt(tree, p).children # <<>>
           /\ next_sibling(nodes(tree), PreOrder(tree, p)) = PreOrder(tree, p) + 2

\* C22: a cursor that has not been used holds no resume position; after a
\* call that returned SUCCESS or FAILURE it holds none either, and the call
\* that follows starts at the root, with the first leaf of the tree; a
\* cursor holds a position only after a call that returned RUNNING.
C22_CursorAtRootUnlessRunning ==
    \A k \in DOMAIN threads :
        LET th == threads[k]
            n == Len(th.runs)
        IN  /\ n = 0 => th.cursor = <<>>
            /\ (n > 0 /\ th.runs[n].status \in {SUCCESS, FAILURE}) => th.cursor = <<>>
            /\ th.cursor # <<>> => (n > 0 /\ th.runs[n].status = RUNNING)
            /\ \A c \in 1..n :
                   (c = 1 \/ th.runs[c - 1].status \in {SUCCESS, FAILURE})
                       => <<th.runs[c].log[FirstLeafReturn(th.runs[c])].path>>
                              = FirstLeafIn(tree, <<>>)

\* One cursor was left at a leaf that is not the first by a call that
\* returned RUNNING and then reset by a call that returned SUCCESS or
\* FAILURE, while the other cursor still holds a position.
C22_Witness ==
    \E k \in DOMAIN threads :
        LET th == threads[k]
        IN  /\ Len(th.runs) = 2
            /\ th.runs[1].status = RUNNING
            /\ <<th.runs[1].log[LastLeafReturn(th.runs[1])].path>> # FirstLeafIn(tree, <<>>)
            /\ th.runs[2].status \in {SUCCESS, FAILURE}
            /\ th.cursor = <<>>
            /\ \E j \in DOMAIN threads : j # k /\ threads[j].cursor # <<>>

\* C23: the root of a tree the builder returned is a forwarder with one
\* child: a process() call invokes that child exactly once, does what the
\* evaluation of the child alone does on the same context, and returns the
\* status the child returned.
C23_RootForwards ==
    (tree # NoTree /\ tree # DefaultTreeRoot) =>
        /\ tree.kind = "decorator" /\ tree.fn = "forwarder"
        /\ Len(tree.children) = 1
        /\ \A c \in 1..Len(runs) :
               LET r == runs[c]
                   alone == NodeProcess(tree.children[1],
                                        [visited |-> r.input, log |-> <<>>], <<1>>)
               IN  /\ Cardinality(Returns(r, <<1>>)) = 1
                   /\ r.status = StatusOf(r, <<1>>)
                   /\ r.status = alone.status
                   /\ r.visited = alone.ctx.visited
                   /\ r.log = Append(alone.ctx.log, Entry(<<>>, "-", alone.status))

\* Two calls on a built tree whose root child is a branch returned
\* different results, one of them RUNNING.
C23_Witness ==
    /\ tree # NoTree /\ tree # DefaultTreeRoot
    /\ tree.children[1].kind # "leaf"
    /\ Len(runs) = 2
    /\ runs[1].status = RUNNING
    /\ runs[2].status \in {SUCCESS, FAILURE}

\* The calls c+1..d each went on with the context the call before left.
Continues(c, d) ==
    \A e \in (c + 1)..d : runs[e].input = runs[e - 1].visited

\* The nodes in the subtrees of the siblings that follow the node at p.
AfterSiblings(p) ==
    { q \in PathsOf(tree) :
          /\ Len(q) >= Len(p)
          /\ SubSeq(q, 1, Len(p) - 1) = SubSeq(p, 1, Len(p) - 1)
          /\ q[Len(p)] > p[Len(p)] }

\* C24: a call that reaches a leaf that always returns RUNNING returns
\* RUNNING unless a succeeder is above the leaf; every call the caller
\* makes after it invokes the leaf again; and no call invokes a node in
\* the siblings that follow the leaf.
C24_RunningLeafIsResumed ==
    \A p \in LeafPaths(tree) : \A c \in 1..Len(runs) :
        (NodeAt(tree, p).fn = AlwaysRunning /\ Invoked(runs[c], p))
            => /\ ~SucceederAbove(p) => runs[c].status = RUNNING
               /\ \A q \in AfterSiblings(p) : ~Invoked(runs[c], q)
               /\ \A d \in (c + 1)..Len(runs) :
                      Continues(c, d) => Invoked(runs[d], p)

\* The tree with the built-in policies in place of the caller's that state
\* the same rule: sequence for customSequence, forwarder for customForward.
RECURSIVE WithBuiltIns(_)
WithBuiltIns(n) ==
    [kind |-> n.kind,
     fn |-> IF n.kind = "composite" /\ n.fn = "customSequence" THEN "sequence"
            ELSE IF n.kind = "decorator" /\ n.fn = "customForward" THEN "forwarder"
            ELSE n.fn,
     children |-> [i \in 1..Len(n.children) |-> WithBuiltIns(n.children[i])]]

\* C25: a caller-supplied composite is handed the children of its node in
\* insertion order (customAll, which processes all it is given, invokes
\* children 1..n once each in that order), a caller-supplied decorator is
\* handed its single child, what the policy returns is the result of the
\* node, and a tree with customSequence evaluates as the same tree with
\* the built-in sequence does.
C25_CustomPolicies ==
    \A c \in 1..Len(runs) :
        LET r == runs[c]
            builtin == TreeProcess(WithBuiltIns(tree), r.input)
        IN  /\ \A e \in 1..Len(r.log) :
                   LET p == r.log[e].path
                       n == Len(NodeAt(tree, p).children)
                   IN  /\ IsNode(p, "composite", "customAll")
                          => /\ InvokedChildren(r, p) = 1..n
                             /\ \A i \in 1..n : Cardinality(Returns(r, Append(p, i))) = 1
                             /\ \A i \in 1..n, j \in 1..n :
                                    i < j => ReturnOf(r, Append(p, i)) < ReturnOf(r, Append(p, j))
                             /\ StatusOf(r, p) = StatusOf(r, Append(p, n))
                       /\ IsNode(p, "composite", "customSequence") => C1_SequenceOne(r, p)
                       /\ IsNode(p, "decorator", "customForward")
                          => /\ n = 1
                             /\ Cardinality(Returns(r, Append(p, 1))) = 1
                             /\ StatusOf(r, p) = StatusOf(r, Append(p, 1))
            /\ r.status = builtin.status
            /\ r.visited = builtin.ctx.visited
            /\ r.log = builtin.ctx.log

\* Under a customForward, a customSequence of two leaves stopped at its
\* first child, which returned RUNNING, and went through both in the next
\* call.
C25_Witness ==
    /\ Len(runs) = 2
    /\ IsNode(<<1>>, "decorator", "customForward")
    /\ IsNode(<<1, 1>>, "composite", "customSequence")
    /\ Len(NodeAt(tree, <<1, 1>>).children) = 2
    /\ InvokedChildren(runs[1], <<1, 1>>) = {1}
    /\ runs[1].status = RUNNING
    /\ InvokedChildren(runs[2], <<1, 1>>) = {1, 2}

\* What a caller holds after n calls on a zeroed Context of its own when
\* nobody else evaluates the tree.
AloneAfter(t, n) ==
    LET after[i \in 0..n] ==
            IF i = 0 THEN [cursor |-> <<>>, ctx |-> ZeroOver(LeafPaths(t)), runs |-> <<>>]
            ELSE PlainCall(t, after[i - 1])
    IN  after[n]

C27_NestedResumption ==
    \A c \in 2..Len(runs) :
        (runs[c - 1].status = RUNNING /\ runs[c].input = runs[c - 1].visited)
            => LET q == runs[c - 1].log[LastLeafReturn(runs[c - 1])].path
                   inner == SubSeq(q, 1, Len(q) - 1)
                   outer == SubSeq(q, 1, Len(q) - 2)
               IN  (Len(q) >= 3 /\ NodeAt(tree, inner).kind = "composite"
                        /\ NodeAt(tree, outer).kind = "composite")
                       => /\ Invoked(runs[c], q)
                          /\ \A p \in PathsOf(tree) :
                                 (ComesBefore(p, q) /\ ~IsPrefix(p, q))
                                     => ~Invoked(runs[c], p)

\* C28: a process() call invokes every leaf, and every other node, at most
\* once, and the leaves it invokes are invoked in depth-first pre-order.
C28_NoRetry ==
    \A c \in 1..Len(runs) :
        LET r == runs[c]
        IN  /\ \A p \in PathsOf(tree) : Cardinality(Returns(r, p)) <= 1
            /\ \A i \in LeafReturns(r), j \in LeafReturns(r) :
                   i < j => ComesBefore(r.log[i].path, r.log[j].path)

\* A call invoked a leaf inside an inner branch, which returned FAILURE,
\* and went on to a leaf of the outer branch.
C28_Witness ==
    \E c \in 1..Len(runs) :
        LET r == runs[c]
        IN  /\ Cardinality(LeafReturns(r)) = 2
            /\ r.log[FirstLeafReturn(r)].status = FAILURE
            /\ Len(r.log[FirstLeafReturn(r)].path) = 3
            /\ Len(r.log[LastLeafReturn(r)].path) = 2

\* C29: build() on the Builder leaves the Builder and its handles as they
\* were and returns a tree equal to the Builder's root, so a second build()
\* with nothing in between returns an equal tree; and no later call on the
\* Builder or on a handle changes the tree that was returned.
C29_BuildCopies ==
    /\ [][(last'.op = "build" /\ halt' = "none")
              => /\ <<root, handles, cur, ended, builders>>'
                        = <<root, handles, cur, ended, builders>>
                 /\ tree' = root
                 /\ last.op = "continue" => tree' = tree]_vars
    /\ [][(last'.op \in AddOps \cup {"end", "dangling", "continue"})
              => tree' = tree]_vars

\* After build() the caller added a leaf through a branch handle: the
\* Builder's root has grown and the tree is as it was returned.
C29_Witness ==
    /\ tree # NoTree
    /\ phase = "building"
    /\ last.op = "leaf" /\ last.h >= 2
    /\ halt = "none"
    /\ NodeCount(root) = NodeCount(tree) + 1

\* C30: end() on the Builder itself fails an assertion when the root has
\* no child; otherwise it returns the Builder itself and changes nothing,
\* and the build() that follows returns the tree it would have returned
\* without that end().
C30_EndOnBuilder ==
    /\ [][(halt = "none" /\ last'.op = "end" /\ last'.h = 1)
              => IF root.children = <<>>
                 THEN halt' = "assert"
                 ELSE /\ halt' = "none"
                      /\ cur' = 1
                      /\ <<root, handles, ended, phase, tree>>'
                             = <<root, handles, ended, phase, tree>>]_vars
    /\ [][(last.op = "end" /\ last.h = 1 /\ halt = "none" /\ last'.op = "build")
              => (halt' = "none" /\ tree' = root /\ root' = root)]_vars

\* Every branch was closed, the chain was back at the Builder, and one
\* more end() was called there.
C30_Witness ==
    /\ last = [op |-> "end", h |-> 1]
    /\ halt = "none"
    /\ cur = 1
    /\ Len(handles) >= 2
    /\ ended = 2..Len(handles)
    /\ phase = "building"

\* The leaves of t are all bool or void functions.
BoolAndVoidLeavesOnly(t) ==
    \A p \in LeafPaths(t) : NodeAt(t, p).fn.ret \in {"bool", "void"}

\* Every branch of t has one of the five built-in policies.
BuiltInPoliciesOnly(t) ==
    \A p \in PathsOf(t) :
        LET n == NodeAt(t, p)
        IN  /\ n.kind = "composite" => n.fn \in {"sequence", "selector"}
            /\ n.kind = "decorator"
                   => n.fn \in {"forwarder", "inverter", "succeeder"}

\* The positions of the log of r at which a Status leaf returned RUNNING.
RunningOrigins(r) ==
    { i \in LeafReturns(r) :
          /\ NodeAt(tree, r.log[i].path).fn.ret = "Status"
          /\ r.log[i].raw = RUNNING }

\* C31: on a tree with built-in policies only, process() never returns
\* RUNNING when all leaves are bool or void functions, and when it returns
\* RUNNING a Status leaf returned RUNNING during that call.
C31_RunningOrigin ==
    \A c \in 1..Len(runs) :
        LET r == runs[c]
        IN  BuiltInPoliciesOnly(tree)
                => /\ BoolAndVoidLeavesOnly(tree) => r.status # RUNNING
                   /\ r.status = RUNNING => RunningOrigins(r) # {}

\* A tree of a selector over an inverter with a bool leaf that returned
\* true and a void leaf was processed: the inverter returned FAILURE, the
\* selector went on to the void leaf and the call returned SUCCESS.
C31_Witness ==
    /\ BuiltInPoliciesOnly(tree) /\ BoolAndVoidLeavesOnly(tree)
    /\ \E c \in 1..Len(runs) :
           LET r == runs[c]
           IN  /\ r.status = SUCCESS
               /\ Cardinality(LeafReturns(r)) = 2
               /\ r.log[FirstLeafReturn(r)].raw = "true"
               /\ r.log[LastLeafReturn(r)].raw = "void"
               /\ \E p \in PathsOf(tree) :
                      /\ IsNode(p, "decorator", "inverter")
                      /\ Invoked(r, p) /\ StatusOf(r, p) = FAILURE

\* A thread is inside tree.process.
InsideProcess == threads # <<>>

\* The nodes the call in progress has entered: those that have returned and
\* those on the stack.
Entered(th) == Len(th.log) + Len(th.stack)

\* C32: a process() call on a tree that build() returned comes to its end;
\* it ends by returning SUCCESS, FAILURE or RUNNING, with the log and the
\* context of one evaluation of the tree on the context it was given; and
\* while it runs, no process function moves back to a child it is past,
\* no node that has returned is entered again, and the nodes entered never
\* outnumber the nodes of the tree.
C32_ProcessTerminates ==
    /\ InsideProcess ~> ~InsideProcess
    /\ [][(InsideProcess /\ ~InsideProcess')
              => /\ halt' = "none"
                 /\ Len(runs') = Len(runs) + 1
                 /\ LET r == runs'[Len(runs')]
                        whole == TreeProcess(tree, threads[1].input)
                    IN  /\ r.status \in Status
                        /\ r.status = whole.status
                        /\ r.log = whole.ctx.log
                        /\ r.visited = whole.ctx.visited]_vars
    /\ [][(InsideProcess /\ InsideProcess')
              => LET s == threads[1].stack
                     t == threads'[1].stack
                     log == threads'[1].log
                 IN  /\ Len(t) \in {Len(s) - 1, Len(s) + 1}
                     /\ \A k \in 1..Len(s) :
                            k <= Len(t) => /\ t[k].path = s[k].path
                                           /\ t[k].next >= s[k].next
                     /\ Len(t) > Len(s)
                            => /\ t[Len(s)].next > s[Len(s)].next
                               /\ \A i \in 1..Len(log) :
                                      log[i].path # t[Len(t)].path
                     /\ Entered(threads'[1]) <= NodeCount(tree)]_vars

====
